---------------------------- MODULE Spec2Model ----------------------------
(***************************************************************************)
(* Conformer generation and pruning engine of AutoMolChem                  *)
(* (src/core/generate_conformers.py and its memory-tuned copy              *)
(* src/pipeline/generate_conformers/generate_single_conformer.py).         *)
(*                                                                         *)
(* A pool candidate is identified by its position 1..pool_size in the      *)
(* molecule's conformer list.  Energies are integers, Inf stands for       *)
(* float('inf').  Distances and thresholds are integers in units of 0.5 A, *)
(* so the default rmsd_threshold 0.5 is 1.                                 *)
(*                                                                         *)
(* Spec     prune_conformers over every pool / energy vector / distance    *)
(*          matrix / configuration, and the output step of                 *)
(*          process_single_smiles.                                         *)
(* SpecMin  minimize_conformers over every combination of per-candidate    *)
(*          primary and fallback force-field outcomes.                     *)
(* SpecEnergy   get_conformer_energies over every minimized pool.          *)
(* SpecRank     get_conformer_energies followed by prune_conformers.       *)
(* SpecProcess  process_single_smiles, stage by stage, in the core and     *)
(*              the pipeline version.                                      *)
(* SpecBatch    main: the worker tasks of one input file, interleaved,     *)
(*              over one shared output tree.                               *)
(* SpecRerun    parse_smi_file_and_create_batches of the batch             *)
(*              orchestrator over what earlier runs left on disk.          *)
(* SpecRuns     two runs of the generator on one molecular graph.          *)
(* SpecRmsd     get_conformer_rmsd over every outcome of every pair.       *)
(* SpecPool     embed_molecule: the number of embeddings requested.        *)
(* SpecCharge   infer_charge_and_spin and the lines of info.txt.           *)
(* SpecLayout   the batch folders molecules are placed in.                 *)
(* SpecFields   the force fields minimize_conformers constructs.           *)
(* SpecOptimize the optimizer stage (omol_optimize.py), run after run.     *)
(***************************************************************************)
EXTENDS Integers, Sequences, FiniteSets, TLC

\* ------------------------------------------------------------------ bounds
MaxPool == 3
MaxConformers == 3
MaxMolecules == 2
MaxSeed == 3
MaxMultiplier == 3
MaxAtoms == 2
MaxDirs == 1

\* --------------------------------------------------------------- constants
Inf == 1000
DefaultMaxConformers == 1
DefaultRmsdThreshold == 1
DefaultPoolMultiplier == 5
DefaultBatchSize == 1000
EtkdgSeed == 42
MediumMolSize == 20
LargeMolSize == 50
MinExtraConfs == 2

EnergyValues == {1, 2, Inf}
DistanceValues == {0, Inf}
ThresholdArgs == {<<>>, <<-1>>, <<0>>, <<1>>}

VARIABLES
    caller,             \* "api": prune_conformers called on a generator of any
                        \* configuration; "process": process_single_smiles
    max_conformers,     \* self.max_conformers
    rmsd_threshold_arg, \* the rmsd_threshold argument of __init__: <<>> is None
    rmsd_threshold,     \* self.rmsd_threshold
    pool_size,          \* mol.GetNumConformers() before pruning
    energies,           \* energies[i]: force-field energy of candidate i, or Inf
    rmsd,               \* rmsd[i][j]: the matrix of get_conformer_rmsd
    pc,                 \* position of the molecule in the pipeline
    path,               \* which return of prune_conformers was taken
    sort,               \* the visiting order of the greedy pass
    keep,               \* keep list of the greedy pass
    discard,            \* discard list of the greedy pass
    conformers,         \* the conformers of the molecule prune_conformers returns
    written,            \* geometries written to conformer.xyz
    force_field,            \* self.force_field
    fallback_force_field,   \* self.fallback_force_field
    outcome,            \* outcome[i]: what the force fields tried on candidate i did
    attempts,           \* attempts[i]: force fields tried on candidate i, in order
    geometry,           \* geometry[i]: Minimize runs that moved candidate i
                        \* (<<>> is the embedded geometry)
    minimized,          \* minimized[i]: the local `success` of candidate i
    successful_minimizations,
    raised,             \* an exception left minimize_conformers
    produced_by,        \* produced_by[i]: the force field whose Minimize gave
                        \* candidate i its geometry: "primary", "fallback", "none"
    evals,              \* evals[i]: what the energy evaluation of candidate i did
    energy_field,       \* energy_field[i]: the force field get_conformer_energies
                        \* asked for to evaluate candidate i
    variant,            \* "core": src/core/generate_conformers.py, "pipeline":
                        \* its copy generate_single_conformer.py
    stage,              \* how far process_single_smiles got with the molecule
    trace,              \* the stages started for the molecule, in order
    sanitized,          \* the SanitizeMol calls of sanitize_molecule
    embed_calls,        \* the EmbedMultipleConfs calls of embed_molecule
    num_conformers,     \* mol.GetNumConformers() after embed_molecule
    out_files,          \* files in the molecule's output directory
    run_files,          \* files in it that this run wrote
    result,             \* what process_single_smiles reports
    molecules,          \* the MoleculeData list of read_smiles_file
    batch_size,         \* args.batch_size
    worker,             \* worker[i]: how far the task of molecule i got
    fs,                 \* the files under the output directory, each with the
                        \* molecule whose task wrote it
    main,               \* position of main
    collected,          \* molecules whose future main has taken
    successful,         \* the counters of main
    failed,
    all_molecules,      \* the molecules parse_smi_file_and_create_batches read
    skip_completed,     \* its skip_completed argument (--skip-completed)
    max_molecules_per_batch,
    disk,               \* disk[d]: the files in rdkit_conformer directory d
    orchestrator,       \* position of parse_smi_file_and_create_batches
    batches,            \* its locals
    current_batch,
    batch_num,
    processed_count,
    skipped_count,
    etkdg_result,       \* what the seeded ETKDG embedding does on the graph
    run_stage,          \* run_stage[r]: how far run r of the generator got
    run_geometry,       \* run_geometry[r]: the embedding run r works on
    run_output,         \* run_output[r]: the geometry run r wrote
    pair_results,       \* pair_results[<<i, j>>]: what GetBestRMS did on the
                        \* pair: <<>> it raised, <<v>> it returned v
    generator,          \* the generator whose embed_molecule runs (version, fields)
    mol_size,           \* mol.GetNumAtoms() after AddHs
    n_confs,            \* the local n_confs of embed_molecule
    embed_requests,     \* numConfs of every EmbedMultipleConfs call, in order
    pool_count,         \* mol.GetNumConformers() when embed_molecule returns
    pool_pc,            \* position of embed_molecule
    mol_atoms,          \* the atoms of the molecule: formal charge and radical electrons
    atoms_info,         \* atoms.info of the ASE object handed to write_conformer_xyz
    info_txt,           \* the lines of info.txt
    charge_pc,          \* position of the output step
    omol_opt,           \* the omol_opt directory of every conformer directory, in place and under --output_dir
    output_dir,         \* whether --output_dir is given to the run
    opt_skip,           \* skip_completed of the run of the optimizer
    conformer_dirs,     \* the directories the run still has to optimize
    found_dirs,         \* the directories the run found to optimize
    prev_result,        \* what the previous run returned for every directory
    this_result,        \* what this run returned for every directory
    opt_pc,             \* position of the optimizer
    field_calls,        \* the get_molecule_force_field calls of minimize_conformers, in order
    ff_conf,            \* the conformer the loop of minimize_conformers is at
    ff_stage            \* the force field the loop tries next on that conformer

pruneVars == <<caller, max_conformers, rmsd_threshold_arg, rmsd_threshold,
               pool_size, energies, rmsd, path, sort, keep, discard,
               conformers, written>>
minVars == <<force_field, fallback_force_field, outcome, attempts, geometry,
             minimized,
             successful_minimizations, raised>>
energyVars == <<produced_by, evals, energy_field>>
procVars == <<variant, stage, trace, sanitized, embed_calls, num_conformers,
              out_files, run_files, result>>
batchVars == <<molecules, batch_size, worker, fs, main, collected, successful,
               failed>>
rerunVars == <<all_molecules, skip_completed, max_molecules_per_batch, disk,
               orchestrator, batches, current_batch, batch_num,
               processed_count, skipped_count>>
runVars == <<etkdg_result, run_stage, run_geometry, run_output>>
rmsdVars == <<pair_results>>
poolVars == <<generator, mol_size, n_confs, embed_requests, pool_count, pool_pc>>
chargeVars == <<mol_atoms, atoms_info, info_txt, charge_pc>>
optVars == <<omol_opt, output_dir, opt_skip, conformer_dirs, found_dirs, prev_result, this_result, opt_pc>>
fieldVars == <<field_calls, ff_conf, ff_stage>>
workflowVars == <<procVars, batchVars, rerunVars, runVars, rmsdVars, poolVars, chargeVars, optVars, fieldVars>>
extVars == <<energyVars, workflowVars>>
engineVars == <<pruneVars, minVars, pc, energyVars>>
vars == <<pruneVars, minVars, pc, extVars>>

\* what the steps of one part of the program leave alone
notProcVars == <<engineVars, batchVars, rerunVars, runVars, rmsdVars, poolVars, chargeVars, optVars, fieldVars>>
notBatchVars == <<engineVars, procVars, rerunVars, runVars, rmsdVars, poolVars, chargeVars, optVars, fieldVars>>
notRerunVars == <<engineVars, procVars, batchVars, runVars, rmsdVars, poolVars, chargeVars, optVars, fieldVars>>
notRunVars == <<engineVars, procVars, batchVars, rerunVars, rmsdVars, poolVars, chargeVars, optVars, fieldVars>>
notPoolVars == <<engineVars, procVars, batchVars, rerunVars, runVars, rmsdVars, chargeVars, optVars, fieldVars>>
notChargeVars == <<engineVars, procVars, batchVars, rerunVars, runVars, rmsdVars, poolVars, optVars, fieldVars>>
notOptVars == <<engineVars, procVars, batchVars, rerunVars, runVars, rmsdVars, poolVars, chargeVars, fieldVars>>
notFieldVars == <<engineVars, procVars, batchVars, rerunVars, runVars, rmsdVars, poolVars, chargeVars, optVars>>

\* ------------------------------------------------------------ construction

\* mutant: a missing threshold falls back to the default instead of disabling
NormalizeThresholdNoneAsDefault(arg) ==
    IF arg = <<>> THEN DefaultRmsdThreshold
    ELSE IF arg[1] >= 0 THEN arg[1] ELSE -1

\* __init__: None and negative thresholds both become -1.0
NormalizeThreshold(arg) ==
    IF arg # <<>> /\ arg[1] >= 0 THEN arg[1] ELSE -1

\* ------------------------------------------------------- prune_conformers

Pool(n) == [i \in 1..n |-> i]

IsInf(e) == e = Inf

AllInf(e) == \A i \in DOMAIN e : IsInf(e[i])

AnyFinite(e) == \E i \in DOMAIN e : ~IsInf(e[i])

\* mutant: descending instead of ascending order
ArgsortDescending(e) ==
    LET n == Len(e)
    IN  {p \in [1..n -> 1..n] :
            /\ \A a, b \in 1..n : a # b => p[a] # p[b]
            /\ \A a, b \in 1..n : a < b => e[p[a]] >= e[p[b]]}

\* np.argsort(energies) with the default kind ('quicksort', not stable):
\* any permutation that is ascending by energy can be returned
Argsort(e) ==
    LET n == Len(e)
    IN  {p \in [1..n -> 1..n] :
            /\ \A a, b \in 1..n : a # b => p[a] # p[b]
            /\ \A a, b \in 1..n : a < b => e[p[a]] <= e[p[b]]}

\* mutant: the candidates are visited in pool order
SortOrdersPoolOrder(e) == {Pool(Len(e))}

\* lines 252-256: argsort when some energy is finite, else pool order
SortOrders(e) ==
    IF AnyFinite(e) THEN Argsort(e) ELSE {Pool(Len(e))}

\* mutant: only the first kept candidate is compared
FarFromFirstKept(d, i, kept, thr) ==
    d[i][kept[1]] >= thr

\* mutant: strict comparison
FarFromKeptStrict(d, i, kept, thr) ==
    \A k \in 1..Len(kept) : d[i][kept[k]] > thr

\* np.all(rmsd[i][keep] >= rmsd_threshold)
FarFromKept(d, i, kept, thr) ==
    \A k \in 1..Len(kept) : d[i][kept[k]] >= thr

\* mutant: the max_conformers test is missing
RECURSIVE GreedyPassNoLimit(_, _, _, _, _, _, _)
GreedyPassNoLimit(order, k, kept, dropped, d, thr, maxc) ==
    IF k > Len(order) THEN [keep |-> kept, discard |-> dropped]
    ELSE LET i == order[k]
         IN  IF Len(kept) = 0 \/ FarFromKept(d, i, kept, thr)
               THEN GreedyPassNoLimit(order, k + 1, Append(kept, i), dropped,
                                      d, thr, maxc)
             ELSE GreedyPassNoLimit(order, k + 1, kept, Append(dropped, i),
                                    d, thr, maxc)

\* mutant: a candidate met after the limit was reached is dropped without
\* being recorded as discarded
RECURSIVE GreedyPassForgetting(_, _, _, _, _, _, _)
GreedyPassForgetting(order, k, kept, dropped, d, thr, maxc) ==
    IF k > Len(order) THEN [keep |-> kept, discard |-> dropped]
    ELSE LET i == order[k]
         IN  IF Len(kept) = 0
               THEN GreedyPassForgetting(order, k + 1, Append(kept, i), dropped,
                                         d, thr, maxc)
             ELSE IF Len(kept) >= maxc
               THEN GreedyPassForgetting(order, k + 1, kept, dropped, d, thr,
                                         maxc)
             ELSE IF FarFromKept(d, i, kept, thr)
               THEN GreedyPassForgetting(order, k + 1, Append(kept, i), dropped,
                                         d, thr, maxc)
             ELSE GreedyPassForgetting(order, k + 1, kept, Append(dropped, i),
                                       d, thr, maxc)

RECURSIVE GreedyPass(_, _, _, _, _, _, _)
GreedyPass(order, k, kept, dropped, d, thr, maxc) ==
    IF k > Len(order) THEN [keep |-> kept, discard |-> dropped]
    ELSE LET i == order[k]
         IN  IF Len(kept) = 0
               THEN GreedyPass(order, k + 1, Append(kept, i), dropped, d, thr, maxc)
             ELSE IF Len(kept) >= maxc
               THEN GreedyPass(order, k + 1, kept, Append(dropped, i), d, thr, maxc)
             ELSE IF FarFromKept(d, i, kept, thr)
               THEN GreedyPass(order, k + 1, Append(kept, i), dropped, d, thr, maxc)
             ELSE GreedyPass(order, k + 1, kept, Append(dropped, i), d, thr, maxc)

\* line 239
PruningDisabled(thr, n) == thr < 0 \/ n <= 1

\* mutant: the total-failure test is missing
TotalEnergyFailureIgnored(e) == FALSE

\* line 245
TotalEnergyFailure(e) == AllInf(e)

PruneConformers ==
    /\ pc = "pool"
    /\ caller = "process" => pool_size > 0
    /\ IF PruningDisabled(rmsd_threshold, pool_size)
         THEN /\ path' = "disabled"
              /\ conformers' = Pool(pool_size)
              /\ UNCHANGED <<sort, keep, discard>>
       ELSE IF TotalEnergyFailure(energies)
         THEN /\ path' = "all_inf"
              /\ conformers' = Pool(pool_size)
              /\ UNCHANGED <<sort, keep, discard>>
       ELSE \E order \in SortOrders(energies) :
              LET g == GreedyPass(order, 1, <<>>, <<>>, rmsd,
                                  rmsd_threshold, max_conformers)
              IN  /\ path' = "greedy"
                  /\ sort' = order
                  /\ keep' = g.keep
                  /\ discard' = g.discard
                  /\ conformers' = g.keep
    /\ pc' = "pruned"
    /\ UNCHANGED <<caller, max_conformers, rmsd_threshold_arg, rmsd_threshold,
                   pool_size, energies, rmsd, written>>
    /\ UNCHANGED <<minVars, extVars>>

\* generate_conformers lines 45-46: an empty pool raises, process_single_smiles
\* catches it and writes nothing
NoConformersGenerated ==
    /\ pc = "pool"
    /\ caller = "process"
    /\ pool_size = 0
    /\ pc' = "failed"
    /\ UNCHANGED <<pruneVars, minVars, extVars>>

\* rdkit_mol_to_ase_atoms: mol.GetConformer() is the first conformer of the
\* pruned molecule; write_conformer_xyz writes that single geometry
FirstConformer(confs) == confs[1]

WriteConformer ==
    /\ pc = "pruned"
    /\ caller = "process"
    /\ written' = <<FirstConformer(conformers)>>
    /\ pc' = "written"
    /\ UNCHANGED <<caller, max_conformers, rmsd_threshold_arg, rmsd_threshold,
                   pool_size, energies, rmsd, path, sort, keep, discard,
                   conformers>>
    /\ UNCHANGED <<minVars, extVars>>

\* get_conformer_rmsd: a zero matrix, then for every pair i < j one value
\* (GetBestRMS, or Inf when it throws) stored in both [i][j] and [j][i]
ConformerPairs(n) == {q \in (1..n) \X (1..n) : q[1] < q[2]}

get_conformer_rmsd_upper_only(n, best_rms) ==
    [i \in 1..n |-> [j \in 1..n |->
        IF i < j THEN best_rms[<<i, j>>] ELSE 0]]

get_conformer_rmsd(n, best_rms) ==
    [i \in 1..n |-> [j \in 1..n |->
        IF i = j THEN 0
        ELSE IF i < j THEN best_rms[<<i, j>>]
        ELSE best_rms[<<j, i>>]]]

\* ---------------------------------------------------- minimize_conformers

ForceFieldNames == {"uff", "mmff94", "mmff94s"}

\* what one force field does on one conformer: get_molecule_force_field
\* returns None ("no_ff"), Minimize raises ("threw"), Minimize returns a
\* non-zero status ("nonzero") or Minimize returns 0 ("zero")
Outcomes == {"no_ff", "threw", "nonzero", "zero"}

\* lines 132-140 / 144-152: build the force field, Minimize inside try/except.
\* A Minimize call that returns has rewritten the conformer's coordinates in
\* place, whatever status it returns; an exception is swallowed.
TryForceField(o) ==
    [success |-> o = "zero",
     moved   |-> o \in {"nonzero", "zero"},
     raised  |-> FALSE]

\* mutant: the fallback is tried whether or not the primary succeeded
FallbackAlwaysTried(primary_success, ff, fb) == fb # ff

\* line 143
FallbackTried(primary_success, ff, fb) == ~primary_success /\ fb # ff

\* one iteration of the loop of minimize_conformers; p and f are the outcomes
\* of the primary and of the fallback force field on this conformer
MinimizeOne(p, f, ff, fb) ==
    LET a == TryForceField(p)
        tried == FallbackTried(a.success, ff, fb)
        b == TryForceField(f)
    IN  [attempts |-> IF tried THEN <<"primary", "fallback">> ELSE <<"primary">>,
         results  |-> IF tried THEN <<p, f>> ELSE <<p>>,
         geometry |-> (IF a.moved THEN <<"primary">> ELSE <<>>)
                      \o (IF tried /\ b.moved THEN <<"fallback">> ELSE <<>>),
         success  |-> a.success \/ (tried /\ b.success),
         raised   |-> a.raised \/ (tried /\ b.raised)]

\* the outcomes a conformer can show: the fallback has one only when tried
LoopOutcomes(ff, fb) ==
    {MinimizeOne(p, f, ff, fb) : p \in Outcomes, f \in Outcomes}

\* lines 137, 149 and 156: every conformer adds one to the counter
CountedSuccessful(r) == Len(r)

MinimizeConformers ==
    /\ pc = "embedded"
    /\ \E r \in [1..pool_size -> LoopOutcomes(force_field, fallback_force_field)] :
          /\ outcome' = [i \in 1..pool_size |-> r[i].results]
          /\ attempts' = [i \in 1..pool_size |-> r[i].attempts]
          /\ geometry' = [i \in 1..pool_size |-> r[i].geometry]
          /\ minimized' = [i \in 1..pool_size |-> r[i].success]
          /\ raised' = \E i \in 1..pool_size : r[i].raised
          /\ successful_minimizations' = CountedSuccessful(r)
          /\ pc' = IF raised' THEN "failed" ELSE "minimized"
    /\ UNCHANGED <<force_field, fallback_force_field>>
    /\ UNCHANGED <<pruneVars, extVars>>

MinIdle ==
    /\ force_field = "uff"
    /\ fallback_force_field = "mmff94"
    /\ outcome = <<>>
    /\ attempts = <<>>
    /\ geometry = <<>>
    /\ minimized = <<>>
    /\ successful_minimizations = 0
    /\ raised = FALSE

EnergyIdle ==
    /\ produced_by = <<>>
    /\ evals = <<>>
    /\ energy_field = <<>>

PruneNotRun ==
    /\ path = "none"
    /\ sort = <<>>
    /\ keep = <<>>
    /\ discard = <<>>
    /\ conformers = <<>>
    /\ written = <<>>

ProcIdle ==
    /\ variant = "core"
    /\ stage = "idle"
    /\ trace = <<>>
    /\ sanitized = <<>>
    /\ embed_calls = <<>>
    /\ num_conformers = 0
    /\ out_files = {}
    /\ run_files = {}
    /\ result = "none"

BatchIdle ==
    /\ molecules = <<>>
    /\ batch_size = DefaultBatchSize
    /\ worker = <<>>
    /\ fs = {}
    /\ main = "idle"
    /\ collected = {}
    /\ successful = 0
    /\ failed = 0

RerunIdle ==
    /\ all_molecules = <<>>
    /\ skip_completed = FALSE
    /\ max_molecules_per_batch = DefaultBatchSize
    /\ disk = <<>>
    /\ orchestrator = "idle"
    /\ batches = <<>>
    /\ current_batch = <<>>
    /\ batch_num = 0
    /\ processed_count = 0
    /\ skipped_count = 0

RunsIdle ==
    /\ etkdg_result = "none"
    /\ run_stage = <<>>
    /\ run_geometry = <<>>
    /\ run_output = <<>>

RmsdIdle ==
    /\ pair_results = <<>>

PoolIdle ==
    /\ generator = [variant |-> "core", max_conformers |-> DefaultMaxConformers, pool_multiplier |-> DefaultPoolMultiplier]
    /\ mol_size = 0
    /\ n_confs = 0
    /\ embed_requests = <<>>
    /\ pool_count = 0
    /\ pool_pc = "idle"

ChargeIdle ==
    /\ mol_atoms = <<>>
    /\ atoms_info = <<>>
    /\ info_txt = <<>>
    /\ charge_pc = "idle"

OptIdle ==
    /\ omol_opt = <<>>
    /\ output_dir = FALSE
    /\ opt_skip = TRUE
    /\ conformer_dirs = <<>>
    /\ found_dirs = {}
    /\ prev_result = <<>>
    /\ this_result = <<>>
    /\ opt_pc = "idle"

FieldsIdle ==
    /\ field_calls = <<>>
    /\ ff_conf = 0
    /\ ff_stage = "idle"

\* the generator as process_single_smiles constructs it, nothing run yet
EngineIdle ==
    /\ caller = "process"
    /\ max_conformers = DefaultMaxConformers
    /\ rmsd_threshold_arg = <<DefaultRmsdThreshold>>
    /\ rmsd_threshold = NormalizeThreshold(rmsd_threshold_arg)
    /\ pool_size = 0
    /\ energies = <<>>
    /\ rmsd = <<>>
    /\ PruneNotRun
    /\ MinIdle
    /\ EnergyIdle
    /\ pc = "idle"

\* every part of the state outside `groups` is untouched
OthersIdle(groups) ==
    /\ IF "engine" \in groups THEN TRUE ELSE EngineIdle
    /\ IF "process" \in groups THEN TRUE ELSE ProcIdle
    /\ IF "batch" \in groups THEN TRUE ELSE BatchIdle
    /\ IF "rerun" \in groups THEN TRUE ELSE RerunIdle
    /\ IF "runs" \in groups THEN TRUE ELSE RunsIdle
    /\ IF "rmsd" \in groups THEN TRUE ELSE RmsdIdle
    /\ IF "pool" \in groups THEN TRUE ELSE PoolIdle
    /\ IF "charge" \in groups THEN TRUE ELSE ChargeIdle
    /\ IF "optimize" \in groups THEN TRUE ELSE OptIdle
    /\ IF "fields" \in groups THEN TRUE ELSE FieldsIdle

ExtIdle ==
    /\ EnergyIdle
    /\ OthersIdle({"engine"})

Init ==
    /\ caller \in {"api", "process"}
    /\ IF caller = "process"
         THEN /\ max_conformers = DefaultMaxConformers
              /\ rmsd_threshold_arg = <<DefaultRmsdThreshold>>
              /\ pool_size \in 0..MaxPool
              /\ pool_size <= DefaultMaxConformers * DefaultPoolMultiplier
         ELSE /\ max_conformers \in 1..MaxConformers
              /\ rmsd_threshold_arg \in ThresholdArgs
              /\ pool_size \in 0..MaxPool
    /\ rmsd_threshold = NormalizeThreshold(rmsd_threshold_arg)
    /\ energies \in [1..pool_size -> EnergyValues]
    /\ \E best_rms \in [ConformerPairs(pool_size) -> DistanceValues] :
          rmsd = get_conformer_rmsd(pool_size, best_rms)
    /\ pc = "pool"
    /\ PruneNotRun
    /\ MinIdle
    /\ ExtIdle

Next ==
    \/ PruneConformers
    \/ NoConformersGenerated
    \/ WriteConformer

Spec == Init /\ [][Next]_vars

\* minimize_conformers on a freshly embedded pool, for every pair of
\* configured force fields
InitMin ==
    /\ caller = "api"
    /\ max_conformers = DefaultMaxConformers
    /\ rmsd_threshold_arg = <<DefaultRmsdThreshold>>
    /\ rmsd_threshold = NormalizeThreshold(rmsd_threshold_arg)
    /\ pool_size \in 0..MaxPool
    /\ energies = <<>>
    /\ rmsd = <<>>
    /\ PruneNotRun
    /\ force_field \in ForceFieldNames
    /\ fallback_force_field \in ForceFieldNames
    /\ outcome = <<>>
    /\ attempts = <<>>
    /\ geometry = [i \in 1..pool_size |-> <<>>]
    /\ minimized = <<>>
    /\ successful_minimizations = 0
    /\ raised = FALSE
    /\ pc = "embedded"
    /\ ExtIdle

NextMin == MinimizeConformers

SpecMin == InitMin /\ [][NextMin]_vars


\* -------------------------------------------------- get_conformer_energies

\* get_molecule_force_field lines 173-176: the configured field asked for
TargetField(force_fallback, ff, fb) ==
    IF force_fallback THEN fb ELSE ff

\* the force field whose Minimize call gave a conformer its final geometry
\* (minimize_conformers lines 136-150)
ProducedBy(r) ==
    IF ~r.success THEN "none"
    ELSE IF Len(r.results) = 2 THEN "fallback"
    ELSE "primary"

ProducedByValues(ff, fb) == {ProducedBy(r) : r \in LoopOutcomes(ff, fb)}

\* what evaluating one conformer does: get_molecule_force_field returns None
\* ("no_ff"), CalcEnergy raises ("threw"), or CalcEnergy returns an energy
EvalOutcomes ==
    {[kind |-> "no_ff", energy |-> 0], [kind |-> "threw", energy |-> 0]}
    \cup {[kind |-> "ok", energy |-> e] : e \in EnergyValues \ {Inf}}

\* mutant: a conformer that cannot be evaluated is left out of the result
get_conformer_energies_dropping(ev) ==
    SelectSeq([i \in 1..Len(ev) |->
                  IF ev[i].kind = "ok" THEN ev[i].energy ELSE Inf],
              LAMBDA e : e # Inf)

\* lines 287-298: one entry per conformer, in conformer order
get_conformer_energies(ev) ==
    [i \in 1..Len(ev) |-> IF ev[i].kind = "ok" THEN ev[i].energy ELSE Inf]

\* line 289: the force field is asked for without force_fallback
EnergyFieldAsked(ff, fb) == TargetField(FALSE, ff, fb)

GetConformerEnergies ==
    /\ pc = "minimized"
    /\ \E ev \in [1..pool_size -> EvalOutcomes] :
          /\ evals' = ev
          /\ energies' = get_conformer_energies(ev)
    /\ energy_field' = [i \in 1..pool_size |->
                           EnergyFieldAsked(force_field, fallback_force_field)]
    /\ pc' = "pool"
    /\ UNCHANGED <<caller, max_conformers, rmsd_threshold_arg, rmsd_threshold,
                   pool_size, rmsd, path, sort, keep, discard, conformers,
                   written>>
    /\ UNCHANGED <<minVars, produced_by, workflowVars>>

\* the energy evaluation of a minimized pool, for every pair of configured
\* force fields and every way the candidates got their geometry
InitEnergy ==
    /\ caller = "api"
    /\ max_conformers = DefaultMaxConformers
    /\ rmsd_threshold_arg = <<DefaultRmsdThreshold>>
    /\ rmsd_threshold = NormalizeThreshold(rmsd_threshold_arg)
    /\ pool_size \in 0..MaxPool
    /\ energies = <<>>
    /\ rmsd = <<>>
    /\ PruneNotRun
    /\ force_field \in ForceFieldNames
    /\ fallback_force_field \in ForceFieldNames
    /\ outcome = <<>>
    /\ attempts = <<>>
    /\ geometry = <<>>
    /\ minimized = <<>>
    /\ successful_minimizations = pool_size
    /\ raised = FALSE
    /\ produced_by \in [1..pool_size ->
                          ProducedByValues(force_field, fallback_force_field)]
    /\ evals = <<>>
    /\ energy_field = <<>>
    /\ OthersIdle({"engine"})
    /\ pc = "minimized"

NextEnergy == GetConformerEnergies

SpecEnergy == InitEnergy /\ [][NextEnergy]_vars

\* the energy evaluation followed by the pruning that ranks on it
InitRank ==
    /\ caller = "api"
    /\ max_conformers \in 1..MaxConformers
    /\ rmsd_threshold_arg = <<DefaultRmsdThreshold>>
    /\ rmsd_threshold = NormalizeThreshold(rmsd_threshold_arg)
    /\ pool_size \in 0..MaxPool
    /\ energies = <<>>
    /\ \E best_rms \in [ConformerPairs(pool_size) -> DistanceValues] :
          rmsd = get_conformer_rmsd(pool_size, best_rms)
    /\ PruneNotRun
    /\ MinIdle
    /\ produced_by = [i \in 1..pool_size |-> "primary"]
    /\ evals = <<>>
    /\ energy_field = <<>>
    /\ OthersIdle({"engine"})
    /\ pc = "minimized"

NextRank ==
    \/ GetConformerEnergies
    \/ PruneConformers

SpecRank == InitRank /\ [][NextRank]_vars

\* ------------------------------------------------- process_single_smiles
Variants == {"core", "pipeline"}
OutputFiles == {"conformer.xyz", "info.txt"}

\* the sanitization levels: Chem.SanitizeMol with every operation, without
\* SANITIZE_PROPERTIES, without SANITIZE_PROPERTIES and SANITIZE_CLEANUP
SanitizeLevels == <<"full", "no_properties", "no_properties_no_cleanup">>
SanitizeCall(k, did_raise) == [level |-> SanitizeLevels[k], raised |-> did_raise]

sanitize_molecule_every_level(fails) ==
    [k \in 1..3 |-> SanitizeCall(k, fails[k])]

\* sanitize_molecule and fix_molecule_issues: the SanitizeMol calls made on a
\* molecule on which the call of level k raises iff fails[k]; every except
\* clause goes on to the next level, the last one prints a warning
sanitize_molecule(fails) ==
    IF ~fails[1] THEN <<SanitizeCall(1, FALSE)>>
    ELSE IF ~fails[2] THEN <<SanitizeCall(1, TRUE), SanitizeCall(2, FALSE)>>
    ELSE <<SanitizeCall(1, TRUE), SanitizeCall(2, TRUE),
           SanitizeCall(3, fails[3])>>

SanitizeResults == {sanitize_molecule(fails) : fails \in [1..3 -> BOOLEAN]}

\* what one AllChem.EmbedMultipleConfs call did: <<>> it raised, <<k>> it
\* returned k conformer ids
EmbedResults == {<<>>} \cup {<<k>> : k \in 0..MaxPool}
Threw(r) == r = <<>>
Yielded(r) == IF Threw(r) THEN 0 ELSE r[1]
EmbedCall(method, r) == [method |-> method, result |-> r]

\* embed_molecule lines 112-119.  p is the result of the ETKDG call, f1 of
\* the basic embedding called inside the try block, f2 of the basic
\* embedding called by the bare except handler.
embed_molecule(p, f1, f2) ==
    IF Threw(p)
    THEN <<EmbedCall("primary", p), EmbedCall("fallback", f2)>>
    ELSE IF Yielded(p) # 0
    THEN <<EmbedCall("primary", p)>>
    ELSE IF Threw(f1)
    THEN <<EmbedCall("primary", p), EmbedCall("fallback", f1),
           EmbedCall("fallback", f2)>>
    ELSE <<EmbedCall("primary", p), EmbedCall("fallback", f1)>>

\* the handler's own call is outside every try block
EmbedRaised(calls) == Threw(calls[Len(calls)].result)
GetNumConformers(calls) == Yielded(calls[Len(calls)].result)

EmptyPoolIgnored(n) == FALSE

\* generate_conformers lines 44-46
EmptyPoolRaises(n) == n = 0

\* cleanup_failed_molecule_directory: rmtree removes the whole directory, or
\* raises part-way and the exception is swallowed
Cleanup(files) == SUBSET files

\* the two failure exits of process_single_smiles: the core version cleans
\* the output directory up, the pipeline version only reports
Fail(reason, present, mine) ==
    /\ stage' = "failed"
    /\ result' = reason
    /\ IF variant = "core"
         THEN \E left \in Cleanup(present) :
                 /\ out_files' = left
                 /\ run_files' = mine \cap left
         ELSE /\ out_files' = present
              /\ run_files' = mine

Continue(next) ==
    /\ stage' = next
    /\ UNCHANGED <<out_files, run_files, result>>

\* Chem.MolFromSmiles
ParseSmiles ==
    /\ stage = "received"
    /\ \E valid \in BOOLEAN :
          IF valid THEN Continue("parsed")
                   ELSE Fail("invalid_smiles", out_files, run_files)
    /\ UNCHANGED <<variant, trace, sanitized, embed_calls, num_conformers>>
    /\ UNCHANGED notProcVars

\* sanitize_molecule: every sanitization error is swallowed
SanitizeMolecule ==
    /\ stage = "parsed"
    /\ trace' = Append(trace, "sanitize")
    /\ sanitized' \in SanitizeResults
    /\ Continue("sanitized")
    /\ UNCHANGED <<variant, embed_calls, num_conformers>>
    /\ UNCHANGED notProcVars

\* embed_molecule and the check of generate_conformers after it
EmbedMolecule ==
    /\ stage = "sanitized"
    /\ trace' = Append(trace, "embed")
    /\ \E p, f1, f2 \in EmbedResults :
          LET calls == embed_molecule(p, f1, f2) IN
          /\ embed_calls' = calls
          /\ num_conformers' = GetNumConformers(calls)
          /\ IF EmbedRaised(calls)
               THEN Fail("embed_raised", out_files, run_files)
               ELSE IF EmptyPoolRaises(GetNumConformers(calls))
               THEN Fail("no_conformers", out_files, run_files)
               ELSE Continue("embedded")
    /\ UNCHANGED <<variant, sanitized>>
    /\ UNCHANGED notProcVars

\* a call inside the try block of process_single_smiles returns or raises
\* into its `except Exception`
RunStage(from, name, to) ==
    /\ stage = from
    /\ trace' = Append(trace, name)
    /\ \E raises \in BOOLEAN :
          IF raises THEN Fail("raised", out_files, run_files)
                    ELSE Continue(to)
    /\ UNCHANGED <<variant, sanitized, embed_calls, num_conformers>>
    /\ UNCHANGED notProcVars

MinimizeStage == RunStage("embedded", "minimize", "minimized")

PruneStage == RunStage("minimized", "prune", "pruned")

\* infer_charge_and_spin, rdkit_mol_to_ase_atoms and the first write of
\* write_conformer_xyz; a write that raises may leave the file behind
WriteXyz ==
    /\ stage = "pruned"
    /\ trace' = Append(trace, "write")
    /\ \E raises, on_disk \in BOOLEAN :
          LET present == IF on_disk THEN out_files \cup {"conformer.xyz"}
                                    ELSE out_files
              mine == IF on_disk THEN run_files \cup {"conformer.xyz"}
                                 ELSE run_files
          IN  IF raises
              THEN Fail("raised", present, mine)
              ELSE /\ on_disk
                   /\ stage' = "xyz_written"
                   /\ out_files' = present
                   /\ run_files' = mine
                   /\ result' = result
    /\ UNCHANGED <<variant, sanitized, embed_calls, num_conformers>>
    /\ UNCHANGED notProcVars

\* the second write of write_conformer_xyz and the success return
WriteInfo ==
    /\ stage = "xyz_written"
    /\ \E raises, on_disk \in BOOLEAN :
          LET present == IF on_disk THEN out_files \cup {"info.txt"}
                                    ELSE out_files
              mine == IF on_disk THEN run_files \cup {"info.txt"}
                                 ELSE run_files
          IN  IF raises
              THEN Fail("raised", present, mine)
              ELSE /\ on_disk
                   /\ stage' = "finalized"
                   /\ out_files' = present
                   /\ run_files' = mine
                   /\ result' = "ok"
    /\ UNCHANGED <<variant, trace, sanitized, embed_calls, num_conformers>>
    /\ UNCHANGED notProcVars

\* one molecule handed to process_single_smiles of either version; its
\* output directory is fresh or holds the output of an earlier run
InitProcess ==
    /\ OthersIdle({"process"})
    /\ variant \in Variants
    /\ stage = "received"
    /\ trace = <<>>
    /\ sanitized = <<>>
    /\ embed_calls = <<>>
    /\ num_conformers = 0
    /\ out_files \in {{}, OutputFiles}
    /\ run_files = {}
    /\ result = "none"

NextProcess ==
    \/ ParseSmiles
    \/ SanitizeMolecule
    \/ EmbedMolecule
    \/ MinimizeStage
    \/ PruneStage
    \/ WriteXyz
    \/ WriteInfo

SpecProcess == InitProcess /\ [][NextProcess]_vars

\* ------------------------------------------------------------------ main
\* molecule names as character sequences; <<>> is a line without a name
Alnum == {"a", "b"}
MoleculeNames == {<<>>, <<"a">>, <<"a", "/">>, <<"/">>}
BatchSizes == {1, DefaultBatchSize}

\* comment or blank lines before the first molecule: read_smiles_file counts
\* them in idx, parse_smi_file_and_create_batches does not
SkippedLines == {0, 1}

RECURSIVE StripLeft(_)
StripLeft(s) == IF s # <<>> /\ s[1] = " " THEN StripLeft(Tail(s)) ELSE s

RECURSIVE StripRight(_)
StripRight(s) ==
    IF s # <<>> /\ s[Len(s)] = " "
    THEN StripRight(SubSeq(s, 1, Len(s) - 1))
    ELSE s

\* process_single_smiles lines 433-434: keep alphanumerics, ' ', '-', '_',
\* strip, replace ' ' by '_'
SafeName(mol_name) ==
    LET kept == SelectSeq(mol_name,
                          LAMBDA c : c \in Alnum \cup {" ", "-", "_"})
        stripped == StripRight(StripLeft(kept))
    IN  [k \in 1..Len(stripped) |->
            IF stripped[k] = " " THEN "_" ELSE stripped[k]]

\* f"molecule_{idx}", the index in unary
IndexName(idx) == <<"molecule_">> \o [k \in 1..idx |-> "|"]

OutputDirRoundedUp(m, size) ==
    [batch |-> (m.idx + size - 1) \div size,
     name |-> IF m.name # <<>> THEN SafeName(m.name) ELSE IndexName(m.idx)]

\* get_batch_directory and lines 432-437: a directory is its batch number and
\* its name below the batch directory; an empty name is the batch directory
OutputDir(m, size) ==
    [batch |-> m.idx \div size,
     name |-> IF m.name # <<>> THEN SafeName(m.name) ELSE IndexName(m.idx)]

\* d is root or lies below it
Under(d, root) ==
    /\ d.batch = root.batch
    /\ root.name = <<>> \/ d.name = root.name

FileOf(i, d, f) == [dir |-> d, file |-> f, by |-> i]

\* a write creates the file or replaces whatever is stored under its path
WriteFile(files, i, d, f) ==
    {e \in files : ~(e.dir = d /\ e.file = f)} \cup {FileOf(i, d, f)}

\* cleanup_failed_molecule_directory on directory d
CleanupDirectory(files, d) ==
    {{e \in files : ~Under(e.dir, d)} \cup left :
        left \in Cleanup({e \in files : Under(e.dir, d)})}

Tasks == 1..Len(molecules)
Dir(i) == OutputDir(molecules[i], batch_size)
SetWorker(i, to) == worker' = [worker EXCEPT ![i] = to]

\* the task starts in a pool process: output_dir.mkdir, outside the try block
WorkerStart(i) ==
    /\ worker[i] = "submitted"
    /\ \E raises \in BOOLEAN :
          SetWorker(i, IF raises THEN "raised" ELSE "started")
    /\ UNCHANGED <<molecules, batch_size, fs, main, collected, successful,
                   failed>>
    /\ UNCHANGED notBatchVars

\* invalid SMILES or an exception before the output is written
WorkerFail(i) ==
    /\ worker[i] = "started"
    /\ fs' \in CleanupDirectory(fs, Dir(i))
    /\ SetWorker(i, "failed")
    /\ UNCHANGED <<molecules, batch_size, main, collected, successful, failed>>
    /\ UNCHANGED notBatchVars

WorkerWriteXyz(i) ==
    /\ worker[i] = "started"
    /\ fs' = WriteFile(fs, i, Dir(i), "conformer.xyz")
    /\ SetWorker(i, "xyz_written")
    /\ UNCHANGED <<molecules, batch_size, main, collected, successful, failed>>
    /\ UNCHANGED notBatchVars

WorkerWriteInfo(i) ==
    /\ worker[i] = "xyz_written"
    /\ \E raises \in BOOLEAN :
          IF raises
          THEN /\ fs' \in CleanupDirectory(fs, Dir(i))
               /\ SetWorker(i, "failed")
          ELSE /\ fs' = WriteFile(fs, i, Dir(i), "info.txt")
               /\ SetWorker(i, "succeeded")
    /\ UNCHANGED <<molecules, batch_size, main, collected, successful, failed>>
    /\ UNCHANGED notBatchVars

\* one round of `for future in as_completed(...)`: future.result() returns
\* the tuple of the task or raises what the task raised
CollectResult(i) ==
    /\ main = "collecting"
    /\ i \notin collected
    /\ worker[i] \in {"succeeded", "failed", "raised"}
    /\ collected' = collected \cup {i}
    /\ main' = IF worker[i] = "raised" THEN "aborted" ELSE main
    /\ successful' = IF worker[i] = "succeeded" THEN successful + 1
                                                ELSE successful
    /\ failed' = IF worker[i] = "failed" THEN failed + 1 ELSE failed
    /\ UNCHANGED <<molecules, batch_size, worker, fs>>
    /\ UNCHANGED notBatchVars

\* the prints after the executor block
FinalReport ==
    /\ main = "collecting"
    /\ collected = Tasks
    /\ main' = "reported"
    /\ UNCHANGED <<molecules, batch_size, worker, fs, collected, successful,
                   failed>>
    /\ UNCHANGED notBatchVars

\* main after read_smiles_file and the submission of every molecule; the
\* file starts with `skipped` comment or blank lines
SubmittedInput(skips, sizes) ==
    /\ OthersIdle({"batch"})
    /\ \E n \in 1..MaxMolecules, skipped \in skips :
          \E names \in [1..n -> MoleculeNames] :
             molecules = [i \in 1..n |-> [idx |-> i - 1 + skipped,
                                          name |-> names[i]]]
    /\ batch_size \in sizes
    /\ worker = [i \in 1..Len(molecules) |-> "submitted"]
    /\ fs = {}
    /\ main = "collecting"
    /\ collected = {}
    /\ successful = 0
    /\ failed = 0

InitBatch == SubmittedInput({0}, BatchSizes)

NextBatch ==
    \/ \E i \in Tasks : WorkerStart(i)
    \/ \E i \in Tasks : WorkerFail(i)
    \/ \E i \in Tasks : WorkerWriteXyz(i)
    \/ \E i \in Tasks : WorkerWriteInfo(i)
    \/ \E i \in Tasks : CollectResult(i)
    \/ FinalReport

SpecBatch == InitBatch /\ [][NextBatch]_vars

\* ----------------------------------- parse_smi_file_and_create_batches
\* the last token of a line, <<>> for a line that holds only the SMILES
LineNames == {<<>>, <<"a">>}
DiskStates == {{}, {"conformer.xyz"}, OutputFiles}

\* lines 57-60: the name of the molecule read from line line_num
MoleculeName(token, line_num) ==
    IF token # <<>> THEN token ELSE IndexName(line_num)

\* lines 83-84: rdkit_conformer directory of a molecule placed in batch b
MoleculeDir(b, name) == [batch |-> b, name |-> name]

is_molecule_completed_xyz_only(files) == "conformer.xyz" \in files

\* is_molecule_completed, lines 31-33
is_molecule_completed(files) ==
    "conformer.xyz" \in files /\ "info.txt" \in files

\* lines 73-81: the batch number the loop is at when it handles the molecule
\* of position index (0-based)
TargetBatchNum(index, per_batch) == index \div per_batch

\* mutant: a finished batch is put in front of the earlier ones
FlushInFront(done, current) ==
    IF current # <<>> THEN <<current>> \o done ELSE done

\* lines 77-79 and 97-98: a batch that is not empty joins the batches
Flush(done, current) == IF current # <<>> THEN Append(done, current) ELSE done

\* one round of the loop of lines 71-94
CreateBatchesStep ==
    /\ orchestrator = "batching"
    /\ processed_count < Len(all_molecules)
    /\ LET m == all_molecules[processed_count + 1]
           target == TargetBatchNum(processed_count, max_molecules_per_batch)
           advance == batch_num < target
           open_batch == IF advance THEN <<>> ELSE current_batch
           molecule_dir == MoleculeDir(IF advance THEN target ELSE batch_num,
                                       m.name)
       IN  /\ batches' = IF advance THEN Flush(batches, current_batch)
                                    ELSE batches
           /\ batch_num' = IF advance THEN target ELSE batch_num
           /\ IF skip_completed /\ is_molecule_completed(disk[molecule_dir])
                THEN /\ skipped_count' = skipped_count + 1
                     /\ current_batch' = open_batch
                ELSE /\ skipped_count' = skipped_count
                     /\ current_batch' =
                           Append(open_batch,
                                  [smiles |-> m.smiles, name |-> m.name,
                                   output_path |-> molecule_dir])
    /\ processed_count' = processed_count + 1
    /\ UNCHANGED <<all_molecules, skip_completed, max_molecules_per_batch,
                   disk, orchestrator>>
    /\ UNCHANGED notRerunVars

\* lines 96-106
ReturnBatches ==
    /\ orchestrator = "batching"
    /\ processed_count = Len(all_molecules)
    /\ batches' = Flush(batches, current_batch)
    /\ orchestrator' = "returned"
    /\ UNCHANGED <<all_molecules, skip_completed, max_molecules_per_batch,
                   disk, current_batch, batch_num, processed_count,
                   skipped_count>>
    /\ UNCHANGED notRerunVars

\* the orchestrator run over an input whose output directories hold
\* whatever earlier runs left; a molecule is identified by its line number
InitRerun ==
    /\ OthersIdle({"rerun"})
    /\ \E n \in 1..MaxMolecules :
          \E tokens \in [1..n -> LineNames] :
             all_molecules =
                [k \in 1..n |-> [smiles |-> k,
                                 name |-> MoleculeName(tokens[k], k)]]
    /\ skip_completed \in BOOLEAN
    /\ max_molecules_per_batch \in BatchSizes
    /\ disk \in [{MoleculeDir(TargetBatchNum(k - 1, max_molecules_per_batch),
                              all_molecules[k].name) :
                     k \in 1..Len(all_molecules)} -> DiskStates]
    /\ orchestrator = "batching"
    /\ batches = <<>>
    /\ current_batch = <<>>
    /\ batch_num = 0
    /\ processed_count = 0
    /\ skipped_count = 0

NextRerun ==
    \/ CreateBatchesStep
    \/ ReturnBatches

SpecRerun == InitRerun /\ [][NextRerun]_vars

\* ------------------------------------------------- two runs, one molecule
Runs == {1, 2}
EtkdgResults == {"conformers", "empty", "raises"}

\* AllChem.EmbedMultipleConfs without a randomSeed: RDKit's default -1 takes
\* a fresh seed on every call
RandomSeeds == 1..MaxSeed

\* the coordinates an embedding method gives with a seed
Embedding(method, seed) == [method |-> method, seed |-> seed]
NoEmbedding == Embedding("none", 0)

\* minimize_conformers, prune_conformers and write_conformer_xyz have no
\* source of randomness: the geometry written is a function of the pool
Written(embedding) == [minimized_from |-> embedding]
NoOutput == Written(NoEmbedding)

SetRun(r, to, g) ==
    /\ run_stage' = [run_stage EXCEPT ![r] = to]
    /\ run_geometry' = [run_geometry EXCEPT ![r] = g]
    /\ UNCHANGED <<etkdg_result, run_output>>

\* embed_molecule line 113: params.randomSeed = 42
EmbedPrimary(r) ==
    /\ run_stage[r] = "sanitized"
    /\ CASE etkdg_result = "conformers" ->
               SetRun(r, "embedded", Embedding("etkdg", EtkdgSeed))
         [] etkdg_result = "empty" -> SetRun(r, "fallback", NoEmbedding)
         [] etkdg_result = "raises" -> SetRun(r, "handler", NoEmbedding)
    /\ UNCHANGED notRunVars

\* lines 114-116: the basic embedding inside the try block
EmbedFallback(r) ==
    /\ run_stage[r] = "fallback"
    /\ \E seed \in RandomSeeds, did \in EtkdgResults :
          CASE did = "conformers" ->
                  SetRun(r, "embedded", Embedding("basic", seed))
            [] did = "empty" -> SetRun(r, "failed", NoEmbedding)
            [] did = "raises" -> SetRun(r, "handler", NoEmbedding)
    /\ UNCHANGED notRunVars

\* lines 117-119: the basic embedding of the except handler
EmbedInHandler(r) ==
    /\ run_stage[r] = "handler"
    /\ \E seed \in RandomSeeds, did \in EtkdgResults :
          IF did = "conformers"
          THEN SetRun(r, "embedded", Embedding("basic", seed))
          ELSE SetRun(r, "failed", NoEmbedding)
    /\ UNCHANGED notRunVars

\* the rest of generate_conformers and the output of process_single_smiles
FinishRun(r) ==
    /\ run_stage[r] = "embedded"
    /\ run_stage' = [run_stage EXCEPT ![r] = "written"]
    /\ run_output' = [run_output EXCEPT ![r] = Written(run_geometry[r])]
    /\ UNCHANGED <<etkdg_result, run_geometry>>
    /\ UNCHANGED notRunVars

\* two runs of the same configuration on the same molecular graph
InitRuns ==
    /\ OthersIdle({"runs"})
    /\ etkdg_result \in EtkdgResults
    /\ run_stage = [r \in Runs |-> "sanitized"]
    /\ run_geometry = [r \in Runs |-> NoEmbedding]
    /\ run_output = [r \in Runs |-> NoOutput]

NextRuns ==
    \/ \E r \in Runs : EmbedPrimary(r)
    \/ \E r \in Runs : EmbedFallback(r)
    \/ \E r \in Runs : EmbedInHandler(r)
    \/ \E r \in Runs : FinishRun(r)

SpecRuns == InitRuns /\ [][NextRuns]_vars

\* ----------------------------------------------------- get_conformer_rmsd
RmsValues == {0, 1, 2}
PairResults == {<<>>} \cup {<<v>> : v \in RmsValues}

\* lines 313-319: the value stored for a pair
StoredRms(r) == IF r = <<>> THEN Inf ELSE r[1]

ComputeRmsd ==
    /\ pc = "minimized"
    /\ rmsd' = get_conformer_rmsd(pool_size,
                   [q \in ConformerPairs(pool_size) |->
                       StoredRms(pair_results[q])])
    /\ pc' = "distances"
    /\ UNCHANGED <<caller, max_conformers, rmsd_threshold_arg, rmsd_threshold,
                   pool_size, energies, path, sort, keep, discard, conformers,
                   written>>
    /\ UNCHANGED <<minVars, energyVars, workflowVars>>

\* get_conformer_rmsd on a pool of every size, every pair computation
\* returning a distance or raising
InitRmsd ==
    /\ OthersIdle({"engine", "rmsd"})
    /\ caller = "api"
    /\ max_conformers = DefaultMaxConformers
    /\ rmsd_threshold_arg = <<DefaultRmsdThreshold>>
    /\ rmsd_threshold = NormalizeThreshold(rmsd_threshold_arg)
    /\ pool_size \in 0..MaxPool
    /\ energies = <<>>
    /\ rmsd = <<>>
    /\ PruneNotRun
    /\ MinIdle
    /\ EnergyIdle
    /\ pc = "minimized"
    /\ pair_results \in [ConformerPairs(pool_size) -> PairResults]

NextRmsd == ComputeRmsd

SpecRmsd == InitRmsd /\ [][NextRmsd]_vars

\* ---------------------------------------------- the size of the pool
\* atom counts around the thresholds of the pipeline version
AtomCounts == {1, MediumMolSize - 1, MediumMolSize, LargeMolSize - 1,
               LargeMolSize, LargeMolSize + 1}

Max2(a, b) == IF a >= b THEN a ELSE b

PoolSizeAlwaysAdaptive(gen, size) ==
    IF size < MediumMolSize
    THEN gen.max_conformers * gen.pool_multiplier
    ELSE IF size < LargeMolSize
    THEN gen.max_conformers * Max2(MinExtraConfs, gen.pool_multiplier - 1)
    ELSE gen.max_conformers * MinExtraConfs

\* n_confs: core line 103, pipeline lines 105-111
PoolSize(gen, size) ==
    IF gen.variant = "core"
    THEN gen.max_conformers * gen.pool_multiplier
    ELSE IF size < MediumMolSize
    THEN gen.max_conformers * gen.pool_multiplier
    ELSE IF size < LargeMolSize
    THEN gen.max_conformers * Max2(MinExtraConfs, gen.pool_multiplier - 1)
    ELSE gen.max_conformers * MinExtraConfs

\* EmbedMultipleConfs(numConfs = n) raises or returns at most n conformers
EmbedResultsUpTo(n) == {<<>>} \cup {<<k>> : k \in 0..n}

\* embed_molecule: every call asks for n_confs conformers and clears the
\* conformers the molecule had
EmbedPool ==
    /\ pool_pc = "hydrogens_added"
    /\ LET n == PoolSize(generator, mol_size) IN
       /\ n_confs' = n
       /\ \E p \in EmbedResultsUpTo(n) :
             \E f1 \in IF Threw(p) \/ Yielded(p) # 0
                          THEN {<<>>} ELSE EmbedResultsUpTo(n) :
                \E f2 \in IF Threw(p) \/ (Yielded(p) = 0 /\ Threw(f1))
                             THEN EmbedResultsUpTo(n) ELSE {<<>>} :
                   LET calls == embed_molecule(p, f1, f2) IN
                   /\ embed_requests' = [k \in 1..Len(calls) |-> n]
                   /\ pool_count' = GetNumConformers(calls)
                   /\ pool_pc' = IF EmbedRaised(calls) THEN "raised"
                                                       ELSE "embedded"
    /\ UNCHANGED <<generator, mol_size>>
    /\ UNCHANGED notPoolVars

\* embed_molecule of either version, for every configuration and atom count
InitPool ==
    /\ OthersIdle({"pool"})
    /\ \E v \in Variants, m \in 1..MaxConformers, k \in 1..MaxMultiplier :
          generator = [variant |-> v, max_conformers |-> m,
                       pool_multiplier |-> k]
    /\ mol_size \in AtomCounts
    /\ n_confs = 0
    /\ embed_requests = <<>>
    /\ pool_count = 0
    /\ pool_pc = "hydrogens_added"

NextPool == EmbedPool

SpecPool == InitPool /\ [][NextPool]_vars

\* ------------------------------------------------ infer_charge_and_spin
FormalCharges == {-1, 0, 1}
RadicalElectrons == {0, 1, 2}
AtomKinds == [formal_charge : FormalCharges, radicals : RadicalElectrons]

GetFormalCharge(atom) == atom.formal_charge
GetNumRadicalElectrons(atom) == atom.radicals

\* sum(atom.GetFormalCharge() for atom in mol.GetAtoms())
RECURSIVE SumFormalCharges(_)
SumFormalCharges(atoms) ==
    IF atoms = <<>> THEN 0
    ELSE GetFormalCharge(atoms[1]) + SumFormalCharges(Tail(atoms))

\* the loop of lines 345-347
RECURSIVE SumRadicalElectrons(_)
SumRadicalElectrons(atoms) ==
    IF atoms = <<>> THEN 0
    ELSE GetNumRadicalElectrons(atoms[1]) + SumRadicalElectrons(Tail(atoms))

infer_charge_and_spin_closed_shell(atoms) ==
    [charge |-> SumFormalCharges(atoms), spin |-> 1]

\* infer_charge_and_spin, lines 343-351
infer_charge_and_spin(atoms) ==
    [charge |-> SumFormalCharges(atoms),
     spin |-> SumRadicalElectrons(atoms) + 1]

\* atoms.info.get(key, default) of write_conformer_xyz
InfoGet(info, key, default) ==
    IF key \in DOMAIN info THEN info[key] ELSE default

\* process_single_smiles lines 448-454 and write_conformer_xyz lines 369-374
WriteInfoTxt ==
    /\ charge_pc = "pruned"
    /\ LET inferred == infer_charge_and_spin(mol_atoms)
           info == [charge |-> inferred.charge, spin |-> inferred.spin]
       IN  /\ atoms_info' = info
           /\ info_txt' = [number_of_atoms |-> Len(mol_atoms),
                           charge |-> InfoGet(info, "charge", 0),
                           spin_multiplicity |-> InfoGet(info, "spin", 1)]
    /\ charge_pc' = "written"
    /\ UNCHANGED mol_atoms
    /\ UNCHANGED notChargeVars

\* the output step for every molecule of up to MaxAtoms atoms
InitCharge ==
    /\ OthersIdle({"charge"})
    /\ \E n \in 0..MaxAtoms : mol_atoms \in [1..n -> AtomKinds]
    /\ atoms_info = <<>>
    /\ info_txt = <<>>
    /\ charge_pc = "pruned"

NextCharge == WriteInfoTxt

SpecCharge == InitCharge /\ [][NextCharge]_vars

\* ------------------------------------------------- the batch folders
LayoutBatchSizes == {1, 2, DefaultBatchSize}

\* the placement of the molecules by process_single_smiles of the core
\* version, or by the batch orchestrator
InitLayout ==
    \/ SubmittedInput(SkippedLines, LayoutBatchSizes)
    \/ InitRerun

NextLayout ==
    \/ \E i \in Tasks : WorkerStart(i)
    \/ CreateBatchesStep
    \/ ReturnBatches

SpecLayout == InitLayout /\ [][NextLayout]_vars

\* ------------------------------------------------- the optimizer stage
\* the conformer directories under the input directory; each holds
\* rdkit_conformer/conformer.xyz and info.txt of the generator stage
ConformerDirs == 1..MaxDirs

\* where an omol_opt directory of a conformer directory can be: in the
\* conformer directory itself, or under --output_dir
Locations == {"in_place", "output_dir"}

OptResults == {"none", "converged", "not_converged", "error", "interrupted"}

\* no omol_opt directory
NoOmolOpt == [exists |-> FALSE, optimized_xyz |-> "absent", info_txt |-> "absent"]

\* is_optimization_completed(conformer_dir): omol_opt of the conformer
\* directory itself holds optimized.xyz and info.txt
is_optimization_completed(d) ==
    LET omol_opt_dir == omol_opt[d]["in_place"] IN
    /\ omol_opt_dir.exists
    /\ omol_opt_dir.optimized_xyz # "absent"
    /\ omol_opt_dir.info_txt # "absent"

\* find_conformer_directories, or the loop over --file_list
find_conformer_directories(skip) ==
    {d \in ConformerDirs : ~(skip /\ is_optimization_completed(d))}

\* sorted(conformer_dirs)
SortedDirs(S) ==
    CHOOSE s \in [1..Cardinality(S) -> S] :
        \A i, j \in 1..Cardinality(S) : i < j => s[i] < s[j]

\* output_subdir of the main loop
OutputSubdir == IF output_dir THEN "output_dir" ELSE "in_place"

\* optimize_conformer_directory returns, and the loop goes on
Returned(d, returned) ==
    /\ this_result' = [this_result EXCEPT ![d] = returned]
    /\ conformer_dirs' = Tail(conformer_dirs)
    /\ opt_pc' = "loop"

InOmolOpt(d, dir) == omol_opt' = [omol_opt EXCEPT ![d][OutputSubdir] = dir]

\* main up to the loop: the options are read and the directories found
OptimizeMain ==
    /\ opt_pc \in {"start", "exit"}
    /\ \E out, skip_opt, force_recompute \in BOOLEAN :
         LET skip == skip_opt /\ ~force_recompute
             dirs == find_conformer_directories(skip) IN
         /\ output_dir' = out
         /\ opt_skip' = skip
         /\ found_dirs' = dirs
         /\ conformer_dirs' = SortedDirs(dirs)
         /\ opt_pc' = IF dirs = {} THEN "exit" ELSE "loop"
    /\ prev_result' = [d \in ConformerDirs |->
                         IF this_result[d] # "none" THEN this_result[d]
                         ELSE prev_result[d]]
    /\ this_result' = [d \in ConformerDirs |-> "none"]
    /\ UNCHANGED <<omol_opt, notOptVars>>

\* optimize_conformer_directory up to the test of converged: omol_opt is
\* made, the structure optimized; an exception returns False, a run that
\* did not converge removes omol_opt
OptimizeStructure ==
    /\ opt_pc = "loop"
    /\ conformer_dirs # <<>>
    /\ LET d == Head(conformer_dirs)
           made == [omol_opt[d][OutputSubdir] EXCEPT !.exists = TRUE] IN
       \E opt_outcome \in {"error", "not_converged", "converged"} :
         CASE opt_outcome = "error" ->
                /\ InOmolOpt(d, made)
                /\ Returned(d, "error")
           [] opt_outcome = "not_converged" ->
                /\ InOmolOpt(d, NoOmolOpt)
                /\ Returned(d, "not_converged")
           [] opt_outcome = "converged" ->
                /\ InOmolOpt(d, made)
                /\ opt_pc' = "write_xyz"
                /\ UNCHANGED <<conformer_dirs, this_result>>
    /\ UNCHANGED <<output_dir, opt_skip, found_dirs, prev_result, notOptVars>>

\* write_optimization_outputs: optimized.xyz
WriteOptimizedXyz ==
    /\ opt_pc = "write_xyz"
    /\ LET d == Head(conformer_dirs) IN
       \E write_raised \in BOOLEAN :
         IF write_raised
         THEN /\ Returned(d, "error")
              /\ UNCHANGED omol_opt
         ELSE /\ InOmolOpt(d, [omol_opt[d][OutputSubdir] EXCEPT
                                 !.optimized_xyz = "written"])
              /\ opt_pc' = "open_info"
              /\ UNCHANGED <<conformer_dirs, this_result>>
    /\ UNCHANGED <<output_dir, opt_skip, found_dirs, prev_result, notOptVars>>

\* write_optimization_outputs: the forces, then info.txt is opened for
\* writing
OpenOptInfo ==
    /\ opt_pc = "open_info"
    /\ LET d == Head(conformer_dirs) IN
       \E open_raised \in BOOLEAN :
         IF open_raised
         THEN /\ Returned(d, "error")
              /\ UNCHANGED omol_opt
         ELSE /\ InOmolOpt(d, [omol_opt[d][OutputSubdir] EXCEPT
                                 !.info_txt = "partial"])
              /\ opt_pc' = "write_info"
              /\ UNCHANGED <<conformer_dirs, this_result>>
    /\ UNCHANGED <<output_dir, opt_skip, found_dirs, prev_result, notOptVars>>

\* write_optimization_outputs: the lines of info.txt, "Converged" last
WriteOptInfoLines ==
    /\ opt_pc = "write_info"
    /\ LET d == Head(conformer_dirs) IN
       \E write_raised \in BOOLEAN :
         IF write_raised
         THEN /\ Returned(d, "error")
              /\ UNCHANGED omol_opt
         ELSE /\ InOmolOpt(d, [omol_opt[d][OutputSubdir] EXCEPT
                                 !.info_txt = "complete"])
              /\ Returned(d, "converged")
    /\ UNCHANGED <<output_dir, opt_skip, found_dirs, prev_result, notOptVars>>

\* the process is interrupted while it optimizes or writes a directory
OptimizeInterrupted ==
    /\ opt_pc \in {"write_xyz", "open_info", "write_info"}
    /\ this_result' = [this_result EXCEPT ![Head(conformer_dirs)] =
                          "interrupted"]
    /\ conformer_dirs' = <<>>
    /\ opt_pc' = "exit"
    /\ UNCHANGED <<omol_opt, output_dir, opt_skip, found_dirs, prev_result,
                   notOptVars>>

\* the summary at the end of main
OptimizationComplete ==
    /\ opt_pc = "loop"
    /\ conformer_dirs = <<>>
    /\ opt_pc' = "exit"
    /\ UNCHANGED <<omol_opt, output_dir, opt_skip, conformer_dirs, found_dirs,
                   prev_result, this_result, notOptVars>>

\* conformer directories of the generator stage, nothing optimized yet
InitOptimize ==
    /\ OthersIdle({"optimize"})
    /\ omol_opt = [d \in ConformerDirs |-> [loc \in Locations |-> NoOmolOpt]]
    /\ output_dir = FALSE
    /\ opt_skip = TRUE
    /\ conformer_dirs = <<>>
    /\ found_dirs = {}
    /\ prev_result = [d \in ConformerDirs |-> "none"]
    /\ this_result = [d \in ConformerDirs |-> "none"]
    /\ opt_pc = "start"

NextOptimize ==
    \/ OptimizeMain
    \/ OptimizeStructure
    \/ WriteOptimizedXyz
    \/ OpenOptInfo
    \/ WriteOptInfoLines
    \/ OptimizeInterrupted
    \/ OptimizationComplete

SpecOptimize == InitOptimize /\ [][NextOptimize]_vars

\* ------------------------------------- the force field that is constructed
\* target_ff.startswith('mmff')
IsMmff(name) == name \in {"mmff94", "mmff94s"}

\* _get_uff_force_field: UFFGetMoleculeForceField takes no variant
get_uff_force_field == [family |-> "uff", mmffVariant |-> "none"]

\* _get_mmff_force_field: MMFFGetMoleculeProperties(mol,
\* mmffVariant=self.force_field)
get_mmff_force_field(ff) == [family |-> "mmff", mmffVariant |-> ff]

\* get_molecule_force_field: the family is chosen by target_ff
get_molecule_force_field(force_fallback, ff, fb) ==
    LET target_ff == TargetField(force_fallback, ff, fb) IN
    IF IsMmff(target_ff) THEN get_mmff_force_field(ff)
    ELSE get_uff_force_field

\* one call of get_molecule_force_field by the loop of minimize_conformers
FieldCall(force_fallback) ==
    [conf_id |-> ff_conf,
     force_fallback |-> force_fallback,
     field |-> get_molecule_force_field(force_fallback, force_field,
                                        fallback_force_field)]

\* the loop goes to the next conformer
NextConformer ==
    /\ ff_conf' = ff_conf + 1
    /\ ff_stage' = IF ff_conf + 1 > pool_size THEN "done" ELSE "primary"

\* lines 132-140: the primary force field on the conformer
TryPrimary ==
    /\ ff_stage = "primary"
    /\ field_calls' = Append(field_calls, FieldCall(FALSE))
    /\ \E p \in Outcomes :
         IF FallbackTried(TryForceField(p).success, force_field,
                          fallback_force_field)
         THEN ff_stage' = "fallback" /\ UNCHANGED ff_conf
         ELSE NextConformer
    /\ UNCHANGED notFieldVars

\* lines 143-152: the fallback force field on the conformer
TryFallback ==
    /\ ff_stage = "fallback"
    /\ field_calls' = Append(field_calls, FieldCall(TRUE))
    /\ NextConformer
    /\ UNCHANGED notFieldVars

\* the loop of minimize_conformers on a freshly embedded pool, for every
\* pair of configured force fields
InitFields ==
    /\ OthersIdle({"engine", "fields"})
    /\ caller = "api"
    /\ max_conformers = DefaultMaxConformers
    /\ rmsd_threshold_arg = <<DefaultRmsdThreshold>>
    /\ rmsd_threshold = NormalizeThreshold(rmsd_threshold_arg)
    /\ pool_size \in 0..MaxPool
    /\ energies = <<>>
    /\ rmsd = <<>>
    /\ PruneNotRun
    /\ force_field \in ForceFieldNames
    /\ fallback_force_field \in ForceFieldNames
    /\ outcome = <<>>
    /\ attempts = <<>>
    /\ geometry = [i \in 1..pool_size |-> <<>>]
    /\ minimized = <<>>
    /\ successful_minimizations = 0
    /\ raised = FALSE
    /\ EnergyIdle
    /\ pc = "embedded"
    /\ field_calls = <<>>
    /\ ff_conf = 1
    /\ ff_stage = IF pool_size = 0 THEN "done" ELSE "primary"

NextFields == TryPrimary \/ TryFallback

SpecFields == InitFields /\ [][NextFields]_vars

\* ================================================================== claims

Pruned == pc \in {"pruned", "written"}

Members(q) == {q[k] : k \in 1..Len(q)}

\* the position of candidate c in the sequence q that contains it once
PositionIn(q, c) == CHOOSE k \in 1..Len(q) : q[k] = c

FiniteEnergies(e) == {e[i] : i \in {j \in DOMAIN e : ~IsInf(e[j])}}

\* ------------------------------------------------------------------- C1
\* C1 (as stated): for every pool, energy vector, distance matrix and
\* configuration with max_conformers >= 1, negative thresholds included, the
\* conformer set returned by prune_conformers has at most max_conformers
\* members.
C1_AtMostMaxConformers ==
    Pruned => Len(conformers) <= max_conformers

\* C1 (amended): the conformer set has at most max_conformers members when
\* the pool has at most one candidate, or when diversity filtering is enabled
\* (rmsd_threshold >= 0) and at least one candidate has a finite energy; in
\* every case it has at most pool_size members.
C1_AtMostMaxConformersWhenFiltering ==
    Pruned =>
        /\ Len(conformers) <= pool_size
        /\ (pool_size <= 1 \/ (rmsd_threshold >= 0 /\ AnyFinite(energies)))
              => Len(conformers) <= max_conformers

\* a filtered pool larger than max_conformers whose far-apart candidates were
\* cut off by the limit
C1_Witness ==
    /\ Pruned
    /\ rmsd_threshold >= 0
    /\ AnyFinite(energies)
    /\ pool_size > max_conformers
    /\ Len(conformers) = max_conformers
    /\ max_conformers >= 2
    /\ \E k \in 1..Len(discard) :
          FarFromKept(rmsd, discard[k], keep, rmsd_threshold)

\* ------------------------------------------------------------------- C2
\* C2 (as stated): whenever rmsd_threshold >= 0, any two distinct members of
\* the returned conformer set that are both beyond the first-kept member have
\* pairwise distance >= rmsd_threshold.
BeyondFirstDiverse ==
    \A a, b \in 2..Len(conformers) :
        a # b => rmsd[conformers[a]][conformers[b]] >= rmsd_threshold

C2_DiverseBeyondFirst ==
    (Pruned /\ rmsd_threshold >= 0) => BeyondFirstDiverse

\* C2 (amended): whenever rmsd_threshold >= 0 and at least one candidate has
\* a finite energy, any two distinct members of the returned conformer set
\* beyond the first-kept member have pairwise distance >= rmsd_threshold.
C2_DiverseBeyondFirstWhenRanked ==
    (Pruned /\ rmsd_threshold >= 0 /\ AnyFinite(energies)) => BeyondFirstDiverse

\* three candidates kept under a positive threshold, the two beyond the
\* first one being later in the pool than they are in the conformer set
C2_Witness ==
    /\ Pruned
    /\ rmsd_threshold > 0
    /\ AnyFinite(energies)
    /\ Len(conformers) >= 3
    /\ conformers # Pool(pool_size)

\* ------------------------------------------------------------------- C3
\* C3: in the greedy pass over the sorted order the first candidate is always
\* kept, and every later candidate is kept if and only if its distance to
\* every candidate kept before it is >= rmsd_threshold and fewer than
\* max_conformers candidates were kept before it; every other candidate is
\* discarded.
KeptBefore(k) == {sort[m] : m \in {x \in 1..(k - 1) : sort[x] \in Members(keep)}}

C3_GreedyRule ==
    (Pruned /\ path = "greedy") =>
        /\ Len(sort) = pool_size
        /\ sort[1] \in Members(keep)
        /\ \A k \in 2..Len(sort) :
              sort[k] \in Members(keep) <=>
                  /\ \A j \in KeptBefore(k) : rmsd[sort[k]][j] >= rmsd_threshold
                  /\ Cardinality(KeptBefore(k)) < max_conformers
        /\ \A k \in 1..Len(sort) :
              sort[k] \in Members(discard) <=> sort[k] \notin Members(keep)

\* a pass that rejected the second candidate for its distance while the limit
\* was not reached, and kept the third
C3_Witness ==
    /\ Pruned
    /\ path = "greedy"
    /\ max_conformers >= 2
    /\ Len(sort) >= 3
    /\ sort[2] \in Members(discard)
    /\ sort[3] \in Members(keep)

\* ------------------------------------------------------------------- C4
\* C4: if the rmsd_threshold argument is negative or None, or the pool has at
\* most one candidate, prune_conformers returns the entire pool unchanged:
\* the same members in the same order, nothing discarded.
ThresholdArgDisables == rmsd_threshold_arg = <<>> \/ rmsd_threshold_arg[1] < 0

C4_IdentityWhenDisabled ==
    (Pruned /\ (ThresholdArgDisables \/ pool_size <= 1)) =>
        /\ conformers = Pool(pool_size)
        /\ discard = <<>>

\* a threshold passed as None on a pool larger than max_conformers whose
\* candidates coincide
C4_Witness ==
    /\ Pruned
    /\ rmsd_threshold_arg = <<>>
    /\ pool_size > max_conformers
    /\ AnyFinite(energies)
    /\ \E i, j \in 1..pool_size : i # j /\ rmsd[i][j] = 0
    /\ conformers = Pool(pool_size)

\* ------------------------------------------------------------------- C5
\* C5: if every candidate's energy is +infinity, prune_conformers keeps the
\* entire pool untouched, whatever rmsd_threshold and max_conformers are.
C5_KeepAllOnTotalFailure ==
    (Pruned /\ AllInf(energies)) => conformers = Pool(pool_size)

\* filtering enabled, every energy infinite, a pool larger than
\* max_conformers with coinciding candidates, all of them returned
C5_Witness ==
    /\ Pruned
    /\ rmsd_threshold > 0
    /\ pool_size > max_conformers
    /\ pool_size >= 2
    /\ AllInf(energies)
    /\ \E i, j \in 1..pool_size : i # j /\ rmsd[i][j] = 0
    /\ Len(conformers) = pool_size

\* ------------------------------------------------------------------- C6
\* C6: the order in which prune_conformers visits the candidates is ascending
\* by energy, with every +infinity candidate after every finite one, and
\* candidates of equal energy in their original relative pool order.
C6_VisitOrderStable ==
    (Pruned /\ path = "greedy") =>
        \A a, b \in 1..Len(sort) :
            a < b =>
                /\ energies[sort[a]] <= energies[sort[b]]
                /\ energies[sort[a]] = energies[sort[b]] => sort[a] < sort[b]

\* ------------------------------------------------------------------- C7
\* C7 (as stated): for every input and configuration, if candidate A has
\* strictly lower finite energy than candidate B and both are in the returned
\* conformer set, A appears no later than B in it.
LowerEnergyFirst ==
    \A a, b \in Members(conformers) :
        (~IsInf(energies[a]) /\ energies[a] < energies[b])
            => PositionIn(conformers, a) <= PositionIn(conformers, b)

C7_EnergyPriority ==
    Pruned => LowerEnergyFirst

\* C7 (amended): when diversity filtering is enabled (rmsd_threshold >= 0),
\* if candidate A has strictly lower finite energy than candidate B and both
\* are in the returned conformer set, A appears no later than B in it.
C7_EnergyPriorityWhenFiltering ==
    (Pruned /\ rmsd_threshold >= 0) => LowerEnergyFirst

\* two kept candidates of different energies, the lower one later in the pool
C7_Witness ==
    /\ Pruned
    /\ rmsd_threshold >= 0
    /\ \E a, b \in Members(conformers) :
          /\ ~IsInf(energies[a])
          /\ energies[a] < energies[b]
          /\ a > b
          /\ PositionIn(conformers, a) < PositionIn(conformers, b)

\* ------------------------------------------------------------------- C8
\* C8: with max_conformers = 1 and a pool in which at least one candidate has
\* a finite energy, process_single_smiles writes exactly one geometry, and it
\* is a pool candidate whose energy is the minimum finite energy of the pool.
C8_LowestEnergyWritten ==
    /\ (pc = "written" /\ AnyFinite(energies)) =>
          /\ max_conformers = 1
          /\ Len(written) = 1
          /\ written[1] \in 1..pool_size
          /\ energies[written[1]] \in FiniteEnergies(energies)
          /\ \A e \in FiniteEnergies(energies) : energies[written[1]] <= e
    /\ pc # "written" => written = <<>>

\* the written geometry is not the first of the pool, which has a higher
\* finite energy, and another candidate could not be evaluated
C8_Witness ==
    /\ pc = "written"
    /\ pool_size >= 3
    /\ written[1] # 1
    /\ ~IsInf(energies[1])
    /\ energies[written[1]] < energies[1]
    /\ \E i \in 1..pool_size : IsInf(energies[i])

\* ------------------------------------------------------------------- C9
\* C9: for each pool candidate minimize_conformers first attempts the primary
\* force field; it attempts the fallback if and only if the primary attempt
\* did not succeed (no force field, Minimize threw, or a non-zero status) and
\* the fallback is configured differently from the primary; the fallback is
\* never attempted before the primary or after a successful primary.
C9_FallbackOnlyAfterFailedPrimary ==
    pc = "minimized" =>
        /\ Len(attempts) = pool_size
        /\ \A i \in 1..pool_size :
              /\ attempts[i][1] = "primary"
              /\ Len(attempts[i]) <= 2
              /\ Len(attempts[i]) = 2 => attempts[i][2] = "fallback"
              /\ Len(attempts[i]) = 2 <=>
                    /\ outcome[i][1] \in {"no_ff", "threw", "nonzero"}
                    /\ fallback_force_field # force_field
              /\ outcome[i][1] = "zero" => attempts[i] = <<"primary">>

\* one pool in which the primary failed in each of the three ways with the
\* fallback tried after it
C9_Witness ==
    /\ pc = "minimized"
    /\ fallback_force_field # force_field
    /\ \A o \in {"no_ff", "threw", "nonzero"} :
          \E i \in 1..pool_size :
              outcome[i][1] = o /\ attempts[i] = <<"primary", "fallback">>

\* a failed primary with the fallback skipped because it is the same field
C9_WitnessSameField ==
    /\ pc = "minimized"
    /\ fallback_force_field = force_field
    /\ \E i \in 1..pool_size : outcome[i] = <<"nonzero">>

\* ------------------------------------------------------------------ C10
\* C10: minimize_conformers never removes a candidate and never raises
\* because a force field failed: after it the pool has exactly the candidates
\* it had before, and a candidate for which both force fields failed is
\* still offered to the pruner with its embedded geometry.
C10_PoolAndEmbeddedGeometryRetained ==
    /\ ~raised
    /\ pc # "failed"
    /\ pc = "minimized" =>
          /\ Len(geometry) = pool_size
          /\ \A i \in 1..pool_size :
                ~minimized[i] => geometry[i] = <<>>

EnergiesEvaluated == pc \in {"pool", "pruned"} /\ Len(evals) = pool_size

EvalFailed(i) == evals[i].kind \in {"no_ff", "threw"}

\* ------------------------------------------------------------------ C11
\* C11: the energy of each candidate is evaluated with the force field that
\* actually produced its geometry: the fallback force field for a candidate
\* minimized by the fallback, the primary force field for a candidate
\* minimized by the primary or left unminimized.
C11_EnergyFieldMatchesGeometry ==
    EnergiesEvaluated =>
        \A i \in 1..pool_size :
            energy_field[i] = IF produced_by[i] = "fallback"
                                 THEN fallback_force_field
                                 ELSE force_field

\* ------------------------------------------------------------------ C12
\* C12: get_conformer_energies returns exactly one energy per pool candidate,
\* in pool order; a candidate whose force field cannot be built or whose
\* energy calculation throws gets +infinity instead of being dropped, and
\* such a candidate is visited by the pruner after every finite-energy
\* candidate.
C12_FailedEvaluationIsInfAndLast ==
    EnergiesEvaluated =>
        /\ Len(energies) = pool_size
        /\ \A i \in 1..pool_size :
              /\ evals[i].kind = "ok" =>
                    energies[i] = evals[i].energy /\ ~IsInf(energies[i])
              /\ EvalFailed(i) => IsInf(energies[i])
        /\ (pc = "pruned" /\ path = "greedy") =>
              /\ Members(sort) = 1..pool_size
              /\ \A a, b \in 1..Len(sort) :
                    (EvalFailed(sort[a]) /\ ~EvalFailed(sort[b])) => a > b

\* the first two pool candidates failed, one in each way, and were visited
\* after the third one, whose evaluation succeeded
C12_Witness ==
    /\ pc = "pruned"
    /\ path = "greedy"
    /\ pool_size >= 3
    /\ evals[1].kind = "no_ff"
    /\ evals[2].kind = "threw"
    /\ evals[3].kind = "ok"
    /\ sort[1] = 3

FallbackCalls(calls) ==
    Cardinality({k \in 1..Len(calls) : calls[k].method = "fallback"})

StageSequence == <<"sanitize", "embed", "minimize", "prune", "write">>

IsPrefix(s, t) ==
    /\ Len(s) <= Len(t)
    /\ \A k \in 1..Len(s) : s[k] = t[k]

Ran(name) == \E k \in 1..Len(trace) : trace[k] = name

\* ------------------------------------------------------------------ C13
\* C13: embed_molecule tries the fallback embedding at most once, and only
\* when the primary embedding yielded zero structures or threw;
\* generate_conformers fails for the molecule if and only if the pool is still
\* empty after the fallback, and then neither minimization nor pruning runs.
C13_FallbackEmbeddingAtMostOnce ==
    embed_calls # <<>> =>
        /\ FallbackCalls(embed_calls) <= 1
        /\ FallbackCalls(embed_calls) > 0 =>
              Yielded(embed_calls[1].result) = 0
        /\ (stage = "failed" /\ trace = <<"sanitize", "embed">>)
              <=> num_conformers = 0
        /\ num_conformers = 0 => ~Ran("minimize") /\ ~Ran("prune")

\* ------------------------------------------------------------------ C14
\* C14: whenever the processing of one molecule ends in failure (invalid
\* graph, embedding failure, or an exception at any step, also between the
\* two output writes), its output directory holds neither a conformer.xyz
\* nor an info.txt written by that run.
C14_NoPartialOutputAfterFailure ==
    stage = "failed" => run_files = {}

\* ------------------------------------------------------------------ C18
\* C18: for each molecule the stages run in the fixed order sanitize, embed,
\* minimize, prune, write, each one starting only after the previous one
\* completed; once a stage fails the molecule is in the terminal Failed
\* state, where no later stage runs and no output is written; Finalized and
\* Failed are the only terminal states.
C18_StagesInOrderUntilTerminal ==
    stage # "idle" =>
        /\ IsPrefix(trace, StageSequence)
        /\ stage \in {"received", "parsed"} => Len(trace) = 0
        /\ stage = "sanitized" => Len(trace) = 1
        /\ stage = "embedded" => Len(trace) = 2
        /\ stage = "minimized" => Len(trace) = 3
        /\ stage = "pruned" => Len(trace) = 4
        /\ stage \in {"xyz_written", "finalized"} => Len(trace) = 5
        /\ (embed_calls # <<>> /\ num_conformers = 0) =>
              stage = "failed" /\ Len(trace) = 2
        /\ stage = "failed" =>
              /\ result \notin {"none", "ok"}
              /\ ~Ran("write") => run_files = {}
        /\ stage = "finalized" <=> result = "ok"
        /\ stage = "finalized" => run_files = OutputFiles
        /\ stage \in {"failed", "finalized"} <=> ~ENABLED NextProcess

\* the minimization raised: the molecule failed after three stages and
\* nothing was written
C18_Witness ==
    /\ stage = "failed"
    /\ result = "raised"
    /\ trace = <<"sanitize", "embed", "minimize">>
    /\ run_files = {}

WorkerDone(i) == worker[i] \in {"succeeded", "failed", "raised"}

BatchEnded == main # "idle" /\ \A i \in Tasks : WorkerDone(i)

\* ------------------------------------------------------------------ C15
\* C15: under every interleaving of the workers and for every input list,
\* also one with names that are equal or become equal or empty after
\* sanitisation, the files written for a molecule that succeeded are still
\* present and unchanged when the batch ends: the cleanup of a failed
\* molecule never removes or alters another molecule's output.
C15_SucceededOutputSurvives ==
    BatchEnded =>
        \A i \in Tasks :
            worker[i] = "succeeded" =>
                \A f \in OutputFiles : FileOf(i, Dir(i), f) \in fs

\* ------------------------------------------------------------------ C16
\* C16: a batch run always reaches its final report whatever the
\* per-molecule outcomes are: every molecule read is processed exactly once,
\* no failure stops the others, and at the end successful + failed is the
\* number of molecules read.
C16_BatchReachesFinalReport ==
    main # "idle" =>
        /\ main # "aborted"
        /\ successful + failed = Cardinality(collected)
        /\ main = "reported" =>
              /\ collected = Tasks
              /\ successful + failed = Len(molecules)
              /\ successful =
                    Cardinality({i \in Tasks : worker[i] = "succeeded"})

Submitted(k) ==
    \E b \in 1..Len(batches) :
        \E j \in 1..Len(batches[b]) : batches[b][j].smiles = k

HomeDir(k) ==
    MoleculeDir(TargetBatchNum(k - 1, max_molecules_per_batch),
                all_molecules[k].name)

CompletedBefore(k) == OutputFiles \subseteq disk[HomeDir(k)]

\* ------------------------------------------------------------------ C17
\* C17: when conformer generation is run again over the same input, a
\* molecule whose output directory already holds both conformer.xyz and
\* info.txt is skipped, unless a force-recompute option was given.
C17_CompletedSkippedByDefault ==
    orchestrator = "returned" =>
        \A k \in 1..Len(all_molecules) : CompletedBefore(k) => ~Submitted(k)

\* C17 (amended): the batch orchestrator leaves a molecule out of the
\* submitted batches exactly when skip_completed was asked for and the
\* molecule's rdkit_conformer directory holds both conformer.xyz and
\* info.txt; without that option every molecule is submitted again.
C17_SkippedOnlyOnRequest ==
    orchestrator = "returned" =>
        /\ \A k \in 1..Len(all_molecules) :
              Submitted(k) <=> ~(skip_completed /\ CompletedBefore(k))
        /\ skipped_count =
              Cardinality({k \in 1..Len(all_molecules) : ~Submitted(k)})

\* with skip_completed, a finished molecule was skipped and one with only
\* its conformer.xyz was submitted again
C17_Witness ==
    /\ orchestrator = "returned"
    /\ skip_completed
    /\ \E k, l \in 1..Len(all_molecules) :
          /\ CompletedBefore(k) /\ ~Submitted(k)
          /\ disk[HomeDir(l)] = {"conformer.xyz"} /\ Submitted(l)

\* ------------------------------------------------------------------ C19
\* C19: two runs of conformer generation on the same molecular graph with
\* the same configuration write identical geometries, on every execution
\* path, also the one where the primary embedding yields nothing and the
\* fallback embedding is used.
C19_TwoRunsSameGeometry ==
    (\A r \in DOMAIN run_stage : run_stage[r] = "written") =>
        \A r, q \in DOMAIN run_stage : run_output[r] = run_output[q]

\* ------------------------------------------------------------------ C20
\* C20: the matrix of get_conformer_rmsd is square over the pool, symmetric,
\* zero on the diagonal, and every off-diagonal entry is the non-negative
\* distance computed for its pair, or +infinity when the computation of that
\* pair failed; the failure of one pair changes no entry of another pair.
C20_RmsdMatrixWellFormed ==
    pc = "distances" =>
        /\ Len(rmsd) = pool_size
        /\ \A i \in 1..pool_size : Len(rmsd[i]) = pool_size
        /\ \A i \in 1..pool_size : rmsd[i][i] = 0
        /\ \A i, j \in 1..pool_size : rmsd[i][j] = rmsd[j][i]
        /\ \A q \in ConformerPairs(pool_size) :
              /\ rmsd[q[1]][q[2]] >= 0
              /\ rmsd[q[1]][q[2]] =
                    IF pair_results[q] = <<>> THEN Inf ELSE pair_results[q][1]

\* the pair (1, 2) failed, the pairs (1, 3) and (2, 3) kept their distances
C20_Witness ==
    /\ pc = "distances"
    /\ pool_size >= 3
    /\ pair_results[<<1, 2>>] = <<>>
    /\ pair_results[<<1, 3>>] = <<1>>
    /\ pair_results[<<2, 3>>] = <<2>>
    /\ rmsd[2][1] = Inf
    /\ rmsd[3][1] = 1
    /\ rmsd[3][2] = 2

EmbedReturned == pool_pc \in {"embedded", "raised"}

\* ------------------------------------------------------------------ C21
\* C21: the candidate pool generator asks for exactly
\* max_conformers x pool_multiplier embeddings for every molecule, so the
\* pool never has more than max_conformers x pool_multiplier candidates.
C21_PoolRequestIsProduct ==
    (EmbedReturned /\ generator.variant = "core") =>
        /\ n_confs = generator.max_conformers * generator.pool_multiplier
        /\ \A k \in 1..Len(embed_requests) :
              embed_requests[k] =
                 generator.max_conformers * generator.pool_multiplier
        /\ pool_count <= generator.max_conformers * generator.pool_multiplier

\* a large molecule whose ETKDG embedding gave nothing and whose fallback
\* filled the whole pool of a generator with both factors above one
C21_Witness ==
    /\ pool_pc = "embedded"
    /\ generator.variant = "core"
    /\ generator.max_conformers >= 2
    /\ generator.pool_multiplier >= 2
    /\ mol_size >= LargeMolSize
    /\ Len(embed_requests) = 2
    /\ pool_count = generator.max_conformers * generator.pool_multiplier

\* ------------------------------------------------------------------ C27
\* C27: in the memory-tuned generator, for all max_conformers >= 1,
\* pool_multiplier >= 1 and atom counts, the adaptive pool size only scales
\* the pool down: it never exceeds max_conformers x pool_multiplier and it
\* never increases when the atom count increases.
C27_AdaptivePoolOnlyShrinks ==
    (EmbedReturned /\ generator.variant = "pipeline") =>
        /\ n_confs <= generator.max_conformers * generator.pool_multiplier
        /\ \A smaller \in AtomCounts :
              smaller <= mol_size => n_confs <= PoolSize(generator, smaller)

\* ------------------------------------------------------------------ C22
\* C22: sanitize_molecule never raises, whichever sanitization levels fail:
\* it tries full sanitization, then sanitization without property
\* computation, then sanitization without property computation and without
\* structural cleanup, in that order, stops at the first level that
\* succeeds, and returns a molecule when all three fail.
C22_SanitizeNeverRaises ==
    Ran("sanitize") =>
        /\ Len(sanitized) \in 1..3
        /\ \A k \in 1..Len(sanitized) :
              /\ sanitized[k].level = SanitizeLevels[k]
              /\ k < Len(sanitized) => sanitized[k].raised
        /\ Len(sanitized) < 3 => ~sanitized[Len(sanitized)].raised
        /\ stage = "failed" => Ran("embed")

\* all three levels raised and the molecule went on to be embedded
C22_Witness ==
    /\ stage = "embedded"
    /\ Len(sanitized) = 3
    /\ \A k \in 1..3 : sanitized[k].raised

RECURSIVE TotalUpTo(_, _)
TotalUpTo(values, k) ==
    IF k = 0 THEN 0 ELSE values[k] + TotalUpTo(values, k - 1)

\* ------------------------------------------------------------------ C23
\* C23: for every molecular graph, infer_charge_and_spin returns the sum of
\* the atoms' formal charges as charge and the sum of the atoms'
\* radical-electron counts plus one as spin multiplicity (so the
\* multiplicity is at least 1, and a neutral radical-free graph gets charge 0
\* and multiplicity 1), and these values are recorded in info.txt.
C23_ChargeAndSpinRecorded ==
    charge_pc = "written" =>
        LET n == Len(mol_atoms)
            charges == [k \in 1..n |-> mol_atoms[k].formal_charge]
            rads == [k \in 1..n |-> mol_atoms[k].radicals]
        IN  /\ info_txt.charge = TotalUpTo(charges, n)
            /\ info_txt.spin_multiplicity = TotalUpTo(rads, n) + 1
            /\ info_txt.spin_multiplicity >= 1
            /\ info_txt.number_of_atoms = n
            /\ (\A k \in 1..n : mol_atoms[k].formal_charge = 0
                                /\ mol_atoms[k].radicals = 0) =>
                  info_txt.charge = 0 /\ info_txt.spin_multiplicity = 1

\* an anion with two radical centres
C23_Witness ==
    /\ charge_pc = "written"
    /\ Len(mol_atoms) = 2
    /\ mol_atoms[1] = [formal_charge |-> -1, radicals |-> 1]
    /\ mol_atoms[2] = [formal_charge |-> 0, radicals |-> 1]
    /\ info_txt.charge = -1
    /\ info_txt.spin_multiplicity = 3

\* directories made so far below batch folder b by the core version
MadeIn(b) ==
    {Dir(i).name : i \in {j \in Tasks : worker[j] = "started"
                                        /\ Dir(j).batch = b}}

\* every entry the orchestrator has placed so far
PlacedEntries ==
    UNION {{batches[b][j] : j \in 1..Len(batches[b])} : b \in 1..Len(batches)}
    \cup {current_batch[j] : j \in 1..Len(current_batch)}

ConvergedFullyWritten(d) ==
    \E loc \in Locations :
        /\ omol_opt[d][loc].optimized_xyz = "written"
        /\ omol_opt[d][loc].info_txt = "complete"

OptFailed(d) == this_result[d] \in {"not_converged", "error", "interrupted"}

\* C25: is_optimization_completed holds for a conformer directory exactly
\* when a converged optimization of it is fully written (optimized.xyz and
\* info.txt); a run that skips completed directories does not optimize a
\* directory whose last optimization converged; and a directory whose
\* optimization did not converge, failed or was interrupted does not pass
\* the completion test because of it.
C25_CompletedIffConvergedWritten ==
    /\ \A d \in ConformerDirs :
         is_optimization_completed(d) <=> ConvergedFullyWritten(d)
    /\ opt_skip => \A d \in found_dirs : prev_result[d] # "converged"
    /\ \A d \in ConformerDirs :
         OptFailed(d) /\ prev_result[d] # "converged"
             => ~is_optimization_completed(d)

\* ---- C26
\* a Minimize call on candidate i returned status 0
ReturnedZero(i) == \E k \in 1..Len(outcome[i]) : outcome[i][k] = "zero"

\* C26: after minimize_conformers the success count is the number of
\* candidates for which the primary or the fallback Minimize call returned
\* status 0; a candidate for which both failed is not counted as a
\* successful minimization.
C26_SuccessCountIsConvergedCount ==
    pc = "minimized" =>
        successful_minimizations =
            Cardinality({i \in 1..pool_size : ReturnedZero(i)})

\* ---- C28
\* the force field a configured name stands for
FieldNamed(name) ==
    IF IsMmff(name) THEN [family |-> "mmff", mmffVariant |-> name]
    ELSE [family |-> "uff", mmffVariant |-> "none"]

\* C28: when the fallback force field is attempted for a candidate, the
\* force field that is constructed is the one named by fallback_force_field,
\* in family and in variant; nothing of the primary force_field setting is
\* used to build it.
C28_FallbackFieldIsTheConfiguredOne ==
    \A k \in 1..Len(field_calls) :
        field_calls[k].force_fallback =>
            field_calls[k].field = FieldNamed(fallback_force_field)

\* ---- C29
\* the candidates kept followed by the candidates discarded
KeptThenDiscarded == conformers \o discard

RECURSIVE Flattened(_)
Flattened(bs) == IF bs = <<>> THEN <<>> ELSE Head(bs) \o Flattened(Tail(bs))

\* the molecules a run has to return: all of them, or with skip_completed
\* those whose directory does not hold both files
ToReturn ==
    {k \in 1..Len(all_molecules) : ~(skip_completed /\ CompletedBefore(k))}

\* C30: the directory parse_smi_file_and_create_batches assigns to a
\* molecule is given by the molecule's position in the input, its name and
\* the batch size alone, so it is the same with and without skip_completed
\* and whatever other molecules are completed; the molecules returned are
\* exactly the non-completed ones (all of them when skip_completed is off),
\* in input order.
C30_DirectoryIndependentOfSkipping ==
    orchestrator = "returned" =>
        LET flat == Flattened(batches) IN
        /\ \A j \in 1..Len(flat) :
              /\ flat[j].output_path = HomeDir(flat[j].smiles)
              /\ flat[j].name = all_molecules[flat[j].smiles].name
        /\ {flat[j].smiles : j \in 1..Len(flat)} = ToReturn
        /\ \A i, j \in 1..Len(flat) : i < j => flat[i].smiles < flat[j].smiles

\* with skip_completed the first molecule was skipped as completed and the
\* second returned, in the second batch folder
C30_Witness ==
    /\ orchestrator = "returned"
    /\ skip_completed
    /\ Len(all_molecules) = 2
    /\ CompletedBefore(1)
    /\ Len(Flattened(batches)) = 1
    /\ Flattened(batches)[1].smiles = 2
    /\ Flattened(batches)[1].output_path.batch = 1

=============================================================================
